---- MODULE Spec2Model ----
(***************************************************************************)
(* Model of smtp_proxy.py: an SMTP listener (aiosmtpd Controller running   *)
(* QuietSMTP sessions on one event-loop thread) whose handler,             *)
(* GmailSMTPHandler, forwards every accepted message to the Gmail send API *)
(* with service-account credentials delegated to the envelope sender.      *)
(*                                                                         *)
(* Text is modelled as sequences of one-character strings, message bodies  *)
(* as sequences of octets (0..255), so that split/lower/base64 are         *)
(* computed and not assumed.  Python's None and '' are both falsy and the  *)
(* code only ever tests truthiness, so both are the empty sequence.        *)
(***************************************************************************)
EXTENDS Integers, Sequences, FiniteSets, TLC

\* ------------------------------------------------------------------ bounds
\* Number of client connections that may be open at the same time.
MaxConns == 2
\* Longest recipient list a client builds in one transaction.
MaxRcpts == 2
\* Number of termination signals (SIGINT/SIGTERM) delivered to the process.
MaxSignals == 2
\* Longest sender address / restriction domain of the sender-policy check.
MaxAddrLen == 3

Conns == 1..MaxConns
NoConn == 0
None == <<>>

\* --------------------------------------------------------------- text data
\* "e" abbreviates the restricted domain (example.com), "E" the same domain
\* in upper case, "o" another domain.
Chars == {"a", "e", "E", "o", "@"}

\* str.lower() on one character of the alphabet above.
LowerChar(ch) ==
    CASE ch = "E" -> "e"
      [] ch = "A" -> "a"
      [] ch = "O" -> "o"
      [] OTHER    -> ch

\* str.lower()
Lower(s) == [i \in 1..Len(s) |-> LowerChar(s[i])]

\* Positions of '@' in s.
AtPositions(s) == {i \in 1..Len(s) : s[i] = "@"}

Max(S) == CHOOSE x \in S : \A y \in S : y <= x

\* s.split('@')[-1]: what follows the last '@'; all of s when it has none.
SplitLast(s) ==
    IF AtPositions(s) = {} THEN s
    ELSE SubSeq(s, Max(AtPositions(s)) + 1, Len(s))

\* Faulty variant of _validate_sender: the comparison forgets to lower-case the sender.
_validate_sender_CaseSensitive(allowed_domain, sender_email) ==
    IF allowed_domain = None THEN TRUE
    ELSE SplitLast(sender_email) = Lower(allowed_domain)

\* GmailSMTPHandler._validate_sender
_validate_sender(allowed_domain, sender_email) ==
    IF allowed_domain = None THEN TRUE
    ELSE Lower(SplitLast(sender_email)) = Lower(allowed_domain)

\* ----------------------------------------------------------------- base64
\* The RFC 4648 URL-safe alphabet used by base64.urlsafe_b64encode.
B64Alphabet ==
    << "A","B","C","D","E","F","G","H","I","J","K","L","M","N","O","P",
       "Q","R","S","T","U","V","W","X","Y","Z","a","b","c","d","e","f",
       "g","h","i","j","k","l","m","n","o","p","q","r","s","t","u","v",
       "w","x","y","z","0","1","2","3","4","5","6","7","8","9","-","_" >>

B64Char(n) == B64Alphabet[n + 1]

RECURSIVE urlsafe_b64encode(_)
\* base64.urlsafe_b64encode(message_data).decode('utf-8'): three octets
\* become four characters, the last group is padded with '='.
urlsafe_b64encode(bytes) ==
    IF Len(bytes) = 0 THEN <<>>
    ELSE IF Len(bytes) = 1 THEN
        << B64Char(bytes[1] \div 4), B64Char((bytes[1] % 4) * 16), "=", "=" >>
    ELSE IF Len(bytes) = 2 THEN
        << B64Char(bytes[1] \div 4),
           B64Char((bytes[1] % 4) * 16 + bytes[2] \div 16),
           B64Char((bytes[2] % 16) * 4), "=" >>
    ELSE
        << B64Char(bytes[1] \div 4),
           B64Char((bytes[1] % 4) * 16 + bytes[2] \div 16),
           B64Char((bytes[2] % 16) * 4 + bytes[3] \div 64),
           B64Char(bytes[3] % 64) >>
        \o urlsafe_b64encode(SubSeq(bytes, 4, Len(bytes)))

\* ------------------------------------------------------------- environment
\* Envelope senders and recipients the clients use, and message bodies
\* (octets, after SMTP transparency has been undone by the library).
Senders == { <<"a","@","e">>, <<"a","@","o">> }
Rcpts == { <<"e","@","o">>, <<"o","@","e">> }
Msgs == { <<72, 105>>, <<255>> }
\* The --domain option: absent, or a restriction written in upper case.
Domains == { None, <<"E">> }
\* Secret material that an upstream error text may embed.
Secrets == {"ya29.tokenA", "ya29.tokenB"}
\* str(e) of an exception raised inside _send_via_gmail, as word sequences.
ErrTexts ==
    { <<"invalid_grant">> } \cup { <<"invalid_grant", s>> : s \in Secrets }
\* What the environment does to one gateway call: the step that raises
\* ("delegate", "build", "send") with the exception text, or "ok" with the
\* 'id' of the API response (None when the response carries no id).
SendOutcomes ==
    { [stage |-> "ok", value |-> v] : v \in { <<"msg-1">>, None } }
    \cup { [stage |-> "send", value |-> t] : t \in ErrTexts }
PreSendFailures ==
    { [stage |-> st, value |-> <<"invalid_grant">>] : st \in {"delegate", "build"} }

\* KEY_FILE on disk when the process starts.
KeyFileStates == {"absent", "malformed", "valid"}
\* service_account.Credentials.from_service_account_file(KEY_FILE, ...)
LoadedCredential == <<"gmail_service_account.json">>

\* ------------------------------------------------------------------- state
VARIABLES
    keyFile,            \* state of KEY_FILE on disk
    allowed_domain,     \* GmailSMTPHandler.allowed_domain
    credentials,        \* GmailSMTPHandler._credentials
    pc,                 \* main thread inside run_server
    exitCode,           \* process exit status, -1 while it runs
    listener,           \* the controller: "down", "up" or "stopped"
    shutdown_requested, \* run_server's flag
    frames,             \* stack of running shutdown() invocations
    signals,            \* termination signals delivered so far
    stopCalls,          \* calls of controller.stop()
    conn,               \* per connection: "closed" or "open"
    host_name,          \* per session: HELO seen
    envelope,           \* per session: the aiosmtpd Envelope
    datamode,           \* per session: reading the DATA payload
    sending,            \* the connection whose handler occupies the loop
    given,              \* per connection: what the client had accepted
    txnSends,           \* per connection: gateway calls of the transaction
    last,               \* the most recent protocol exchange
    polDomain, polSender, polResult   \* inputs/result of the policy check

vars == << keyFile, allowed_domain, credentials, pc, exitCode, listener,
           shutdown_requested, frames, signals, stopCalls, conn, host_name,
           envelope, datamode, sending, given, txnSends, last,
           polDomain, polSender, polResult >>

procVars == << keyFile, allowed_domain, credentials, pc, exitCode, listener,
               shutdown_requested, frames, signals, stopCalls >>
polVars == << polDomain, polSender, polResult >>

\* A reply line "<code> <text><arg>".
Reply(code, text, arg) == [code |-> code, text |-> text, arg |-> arg]
NoReply == Reply(0, "", <<>>)

\* aiosmtpd.smtp.Envelope()
EmptyEnvelope == [mail_from |-> None, rcpt_tos |-> <<>>, content |-> <<>>]
NothingGiven == [from |-> None, rcpts |-> <<>>, data |-> <<>>]

\* One protocol exchange: the command of connection c, the transaction as
\* the client knew it when the command was sent, the reply, what the
\* environment did to the outbound call (out), and the gateway invocations,
\* delegations and outbound send calls made while handling the command.
Exchange(c, cmd, txn, reply, out, h) ==
    [conn |-> c, cmd |-> cmd, txn |-> txn, reply |-> reply, out |-> out,
     gateway |-> h.gateway, tokens |-> h.tokens, requests |-> h.requests]
NoOutcome == [stage |-> "none", value |-> <<>>]
NoCalls == [gateway |-> <<>>, tokens |-> <<>>, requests |-> <<>>]
Event(c, cmd, reply) ==
    Exchange(c, cmd, NothingGiven, reply, NoOutcome, NoCalls)
Command(c, cmd, txn, reply) ==
    Exchange(c, cmd, txn, reply, NoOutcome, NoCalls)

Init ==
    /\ keyFile \in KeyFileStates
    /\ allowed_domain \in Domains
    /\ credentials = None
    /\ pc = "load"
    /\ exitCode = -1
    /\ listener = "down"
    /\ shutdown_requested = FALSE
    /\ frames = <<>>
    /\ signals = 0
    /\ stopCalls = 0
    /\ conn = [c \in Conns |-> "closed"]
    /\ host_name = [c \in Conns |-> FALSE]
    /\ envelope = [c \in Conns |-> EmptyEnvelope]
    /\ datamode = [c \in Conns |-> FALSE]
    /\ sending = NoConn
    /\ given = [c \in Conns |-> NothingGiven]
    /\ txnSends = [c \in Conns |-> 0]
    /\ last = Event(NoConn, "NONE", NoReply)
    /\ polDomain = None /\ polSender = None /\ polResult = "unchecked"

\* ------------------------------------------------------ process lifecycle
sessVars == << conn, host_name, envelope, datamode, sending, given,
               txnSends, last >>

\* The process ends: every socket is closed and no session survives.
Terminate(code) ==
    /\ pc' = "exited"
    /\ exitCode' = code
    /\ frames' = <<>>
    /\ conn' = [c \in Conns |-> "closed"]
    /\ host_name' = [c \in Conns |-> FALSE]
    /\ envelope' = [c \in Conns |-> EmptyEnvelope]
    /\ datamode' = [c \in Conns |-> FALSE]
    /\ sending' = NoConn
    /\ given' = [c \in Conns |-> NothingGiven]
    /\ txnSends' = [c \in Conns |-> 0]
    /\ last' = Event(NoConn, "EXIT", NoReply)

\* Faulty variant of _load_credentials: a missing key file is not fatal.
_load_credentials_NoExit ==
    /\ pc = "load"
    /\ pc' = "start"
    /\ credentials' = IF keyFile = "valid" THEN LoadedCredential ELSE None
    /\ UNCHANGED << keyFile, allowed_domain, exitCode, listener,
                    shutdown_requested, frames, signals, stopCalls >>
    /\ UNCHANGED sessVars
    /\ UNCHANGED polVars

\* GmailSMTPHandler.__init__ / _load_credentials, called from run_server:
\* sys.exit(1) when KEY_FILE is missing; from_service_account_file raises
\* on a malformed file and the uncaught exception ends the process with
\* status 1 as well.
_load_credentials ==
    /\ pc = "load"
    /\ IF keyFile = "valid"
       THEN /\ credentials' = LoadedCredential
            /\ pc' = "start"
            /\ UNCHANGED << exitCode, frames >>
            /\ UNCHANGED sessVars
       ELSE /\ Terminate(1)
            /\ UNCHANGED credentials
    /\ UNCHANGED << keyFile, allowed_domain, listener, shutdown_requested,
                    signals, stopCalls >>
    /\ UNCHANGED polVars

\* run_server: controller.start().  The bind may fail; start() then raises
\* and the uncaught exception ends the process with status 1.
controller_start ==
    /\ pc = "start"
    /\ \E bound \in BOOLEAN :
         IF bound
         THEN /\ listener' = "up"
              /\ pc' = "install"
              /\ UNCHANGED << exitCode, frames >>
              /\ UNCHANGED sessVars
         ELSE /\ Terminate(1)
              /\ UNCHANGED listener
    /\ UNCHANGED << keyFile, allowed_domain, credentials, shutdown_requested,
                    signals, stopCalls >>
    /\ UNCHANGED polVars

\* run_server: shutdown_requested = False; signal.signal(SIGINT/SIGTERM,
\* shutdown); then loop.run_forever() in the main thread.
install_handlers ==
    /\ pc = "install"
    /\ pc' = "run"
    /\ shutdown_requested' = FALSE
    /\ UNCHANGED << keyFile, allowed_domain, credentials, exitCode, listener,
                    frames, signals, stopCalls >>
    /\ UNCHANGED sessVars
    /\ UNCHANGED polVars

\* A termination signal arrives: Python runs shutdown(signum, frame) in the
\* main thread, on top of whatever shutdown() invocation is still running.
Signal ==
    /\ pc = "run"
    /\ signals < MaxSignals
    /\ signals' = signals + 1
    /\ frames' = Append(frames, "check")
    /\ UNCHANGED << keyFile, allowed_domain, credentials, pc, exitCode,
                    listener, shutdown_requested, stopCalls >>
    /\ UNCHANGED sessVars
    /\ UNCHANGED polVars

Top == frames[Len(frames)]
Pop == SubSeq(frames, 1, Len(frames) - 1)
SetTop(p) == [frames EXCEPT ![Len(frames)] = p]

\* Faulty variant of shutdown(): the guard on shutdown_requested is missing.
shutdown_check_NoGuard ==
    /\ pc = "run" /\ frames # <<>> /\ Top = "check"
    /\ frames' = SetTop("set")
    /\ UNCHANGED << keyFile, allowed_domain, credentials, pc, exitCode,
                    listener, shutdown_requested, signals, stopCalls >>
    /\ UNCHANGED sessVars
    /\ UNCHANGED polVars

\* shutdown(): if shutdown_requested: return
shutdown_check ==
    /\ pc = "run" /\ frames # <<>> /\ Top = "check"
    /\ frames' = IF shutdown_requested THEN Pop ELSE SetTop("set")
    /\ UNCHANGED << keyFile, allowed_domain, credentials, pc, exitCode,
                    listener, shutdown_requested, signals, stopCalls >>
    /\ UNCHANGED sessVars
    /\ UNCHANGED polVars

\* shutdown(): shutdown_requested = True
shutdown_set ==
    /\ pc = "run" /\ frames # <<>> /\ Top = "set"
    /\ shutdown_requested' = TRUE
    /\ frames' = SetTop("stop")
    /\ UNCHANGED << keyFile, allowed_domain, credentials, pc, exitCode,
                    listener, signals, stopCalls >>
    /\ UNCHANGED sessVars
    /\ UNCHANGED polVars

\* shutdown(): controller.stop().  stop() hands cancel_tasks to the event
\* loop and joins the loop thread, so it returns only once the loop is not
\* inside a handler; every session task is cancelled.  A stop() of a
\* controller that is not running raises AssertionError, which nothing
\* catches: the process ends with status 1.
shutdown_stop ==
    /\ pc = "run" /\ frames # <<>> /\ Top = "stop"
    /\ sending = NoConn
    /\ stopCalls' = stopCalls + 1
    /\ IF listener = "up"
       THEN /\ listener' = "stopped"
            /\ frames' = SetTop("exit")
            /\ conn' = [c \in Conns |-> "closed"]
            /\ host_name' = [c \in Conns |-> FALSE]
            /\ envelope' = [c \in Conns |-> EmptyEnvelope]
            /\ datamode' = [c \in Conns |-> FALSE]
            /\ given' = [c \in Conns |-> NothingGiven]
            /\ txnSends' = [c \in Conns |-> 0]
            /\ last' = Event(NoConn, "STOP", NoReply)
            /\ UNCHANGED << pc, exitCode, sending >>
       ELSE /\ Terminate(1)
            /\ UNCHANGED listener
    /\ UNCHANGED << keyFile, allowed_domain, credentials, shutdown_requested,
                    signals >>
    /\ UNCHANGED polVars

\* shutdown(): sys.exit(0).  SystemExit unwinds every running invocation
\* and run_server's try/finally, whose "if not shutdown_requested:
\* controller.stop()" is skipped because the flag is set.
shutdown_exit ==
    /\ pc = "run" /\ frames # <<>> /\ Top = "exit"
    /\ stopCalls' = stopCalls + (IF shutdown_requested THEN 0 ELSE 1)
    /\ Terminate(IF shutdown_requested THEN 0 ELSE 1)
    /\ UNCHANGED << keyFile, allowed_domain, credentials, listener,
                    shutdown_requested, signals >>
    /\ UNCHANGED polVars

\* ------------------------------------------------------------- the handler
\* Faulty variant of _send_via_gmail: the reply text of a failure is dropped.
_send_via_gmail_NoText(creds, sender, recipients, message_data, out) ==
    [success |-> out.stage = "ok",
     result |-> <<>>,
     tokens |-> IF out.stage = "delegate" THEN <<>>
                ELSE << [base |-> creds, subject |-> sender] >>,
     requests |-> IF out.stage \in {"send", "ok"}
                  THEN << [credentials |-> [base |-> creds, subject |-> sender],
                           userId |-> sender,
                           raw |-> urlsafe_b64encode(message_data)] >>
                  ELSE <<>>]

\* Faulty variant of _send_via_gmail: the envelope recipients are put into
\* the send call.
_send_via_gmail_WithRecipients(creds, sender, recipients, message_data, out) ==
    LET delegated_credentials == [base |-> creds, subject |-> sender]
        raw_message == urlsafe_b64encode(message_data)
    IN  [success |-> out.stage = "ok",
         result |-> IF out.stage = "ok" /\ out.value = None
                    THEN <<"unknown">>
                    ELSE out.value,
         tokens |-> IF out.stage = "delegate" THEN <<>>
                    ELSE << delegated_credentials >>,
         requests |-> IF out.stage \in {"send", "ok"}
                      THEN << [credentials |-> delegated_credentials,
                               userId |-> sender,
                               to |-> recipients,
                               raw |-> raw_message] >>
                      ELSE <<>>]

\* GmailSMTPHandler._send_via_gmail.  `out` is what the environment does to
\* this call.  The result is (success, result) together with the delegated
\* credentials derived and the send calls that reached execute().
_send_via_gmail(creds, sender, recipients, message_data, out) ==
    LET delegated_credentials == [base |-> creds, subject |-> sender]
        raw_message == urlsafe_b64encode(message_data)
    IN  [success |-> out.stage = "ok",
         result |-> IF out.stage = "ok" /\ out.value = None
                    THEN <<"unknown">>      \* result.get('id', 'unknown')
                    ELSE out.value,         \* the id, or str(e)
         tokens |-> IF out.stage = "delegate" THEN <<>>
                    ELSE << delegated_credentials >>,
         requests |-> IF out.stage \in {"send", "ok"}
                      THEN << [credentials |-> delegated_credentials,
                               userId |-> sender,
                               raw |-> raw_message] >>
                      ELSE <<>>]

\* Faulty variant of handle_RCPT: the newest recipient is put first.
handle_RCPT_Prepend(env, address) ==
    [envelope |-> [env EXCEPT !.rcpt_tos = <<address>> \o @],
     status |-> Reply(250, "OK", <<>>)]

\* GmailSMTPHandler.handle_RCPT
handle_RCPT(env, address) ==
    [envelope |-> [env EXCEPT !.rcpt_tos = Append(@, address)],
     status |-> Reply(250, "OK", <<>>)]

GatewayCall(sender, recipients, message_data) ==
    [sender |-> sender, recipients |-> recipients,
     message_data |-> message_data]

\* Faulty variant of handle_DATA: the sender is not validated.
handle_DATA_NoPolicy(domain, creds, env, out) ==
    LET r == _send_via_gmail(creds, env.mail_from, env.rcpt_tos, env.content, out)
    IN  [status |-> IF r.success
                    THEN Reply(250, "Message accepted for delivery", <<>>)
                    ELSE Reply(550, "Failed to send: ", r.result),
         gateway |-> << GatewayCall(env.mail_from, env.rcpt_tos, env.content) >>,
         tokens |-> r.tokens,
         requests |-> r.requests]

\* Faulty variant of handle_DATA: success is reported with the library's default.
handle_DATA_PlainOK(domain, creds, env, out) ==
    LET r == _send_via_gmail(creds, env.mail_from, env.rcpt_tos, env.content, out)
    IN  IF ~_validate_sender(domain, env.mail_from)
        THEN [status |-> Reply(550, "Sender domain not allowed: ", env.mail_from),
              gateway |-> <<>>, tokens |-> <<>>, requests |-> <<>>]
        ELSE [status |-> IF r.success
                         THEN Reply(250, "OK", <<>>)
                         ELSE Reply(550, "Failed to send: ", r.result),
              gateway |-> << GatewayCall(env.mail_from, env.rcpt_tos, env.content) >>,
              tokens |-> r.tokens,
              requests |-> r.requests]

\* GmailSMTPHandler.handle_DATA: the status line it returns, and the
\* gateway invocations, delegations and send calls it made on the way.
handle_DATA(domain, creds, env, out) ==
    LET sender == env.mail_from
        recipients == env.rcpt_tos
        message_data == env.content
        r == _send_via_gmail(creds, sender, recipients, message_data, out)
    IN  IF ~_validate_sender(domain, sender)
        THEN [status |-> Reply(550, "Sender domain not allowed: ", sender),
              gateway |-> <<>>, tokens |-> <<>>, requests |-> <<>>]
        ELSE [status |-> IF r.success
                         THEN Reply(250, "Message accepted for delivery", <<>>)
                         ELSE Reply(550, "Failed to send: ", r.result),
              gateway |-> << GatewayCall(sender, recipients, message_data) >>,
              tokens |-> r.tokens,
              requests |-> r.requests]

\* ------------------------------------------------------------ the sessions
\* Every session runs as a task of the controller's single event loop: a
\* command is taken up only while the loop is not inside a handler.
\* handle_DATA is a coroutine that calls _send_via_gmail without awaiting,
\* so service...execute() keeps the loop thread until the HTTP call returns.
LoopFree == listener = "up" /\ exitCode = -1 /\ sending = NoConn

InCommandMode(c) == LoopFree /\ conn[c] = "open" /\ ~datamode[c]

NeedHelo == Reply(503, "Error: send HELO first", <<>>)
OK250 == Reply(250, "OK", <<>>)

\* The listener accepts a connection; the new session greets with 220.
Accept(c) ==
    /\ LoopFree
    /\ conn[c] = "closed"
    /\ conn' = [conn EXCEPT ![c] = "open"]
    /\ host_name' = [host_name EXCEPT ![c] = FALSE]
    /\ envelope' = [envelope EXCEPT ![c] = EmptyEnvelope]
    /\ datamode' = [datamode EXCEPT ![c] = FALSE]
    /\ given' = [given EXCEPT ![c] = NothingGiven]
    /\ txnSends' = [txnSends EXCEPT ![c] = 0]
    /\ last' = Event(c, "CONNECT", Reply(220, "ESMTP", <<>>))
    /\ UNCHANGED sending
    /\ UNCHANGED procVars
    /\ UNCHANGED polVars

\* Faulty variant of _set_rset_state: the recipients are dropped and the
\* sender is kept.
_set_rset_state_KeepsSender(env) == [env EXCEPT !.rcpt_tos = <<>>]

\* SMTP._set_rset_state: "self.envelope = self._create_envelope()", a new
\* empty envelope whatever the old one held.
_set_rset_state(env) == EmptyEnvelope

\* SMTP.smtp_HELO / smtp_EHLO: _set_rset_state(), remember the host name.
smtp_HELO(c) ==
    /\ InCommandMode(c)
    /\ host_name' = [host_name EXCEPT ![c] = TRUE]
    /\ envelope' = [envelope EXCEPT ![c] = _set_rset_state(@)]
    /\ given' = [given EXCEPT ![c] = NothingGiven]
    /\ last' = Command(c, "HELO", given[c], Reply(250, "hostname", <<>>))
    /\ UNCHANGED << conn, datamode, sending, txnSends >>
    /\ UNCHANGED procVars
    /\ UNCHANGED polVars

\* SMTP.smtp_MAIL: 503 before HELO and inside a transaction; otherwise the
\* handler has no handle_MAIL, so the address is stored and 250 OK sent.
smtp_MAIL(c, address) ==
    /\ InCommandMode(c)
    /\ LET reply == IF ~host_name[c] THEN NeedHelo
                    ELSE IF envelope[c].mail_from # None
                         THEN Reply(503, "Error: nested MAIL command", <<>>)
                         ELSE OK250
       IN  /\ envelope' = IF reply = OK250
                          THEN [envelope EXCEPT ![c].mail_from = address]
                          ELSE envelope
           /\ given' = IF reply.code = 250
                       THEN [given EXCEPT ![c] =
                                [from |-> address, rcpts |-> <<>>, data |-> <<>>]]
                       ELSE given
           /\ txnSends' = IF reply.code = 250
                          THEN [txnSends EXCEPT ![c] = 0] ELSE txnSends
           /\ last' = Command(c, "MAIL", given[c], reply)
    /\ UNCHANGED << conn, host_name, datamode, sending >>
    /\ UNCHANGED procVars
    /\ UNCHANGED polVars

\* Faulty variant of smtp_RCPT's precondition: RCPT is taken without a sender.
rcpt_needs_mail_Never(env) == FALSE

\* SMTP.smtp_RCPT: "if not self.envelope.mail_from: 503 need MAIL command".
rcpt_needs_mail(env) == env.mail_from = None

\* SMTP.smtp_RCPT: 503 before HELO and before MAIL; otherwise the status
\* is the one handle_RCPT returns.
smtp_RCPT(c, address) ==
    /\ InCommandMode(c)
    /\ Len(given[c].rcpts) < MaxRcpts
    /\ LET checked == ~host_name[c] \/ rcpt_needs_mail(envelope[c])
           h == handle_RCPT(envelope[c], address)
           reply == IF ~host_name[c] THEN NeedHelo
                    ELSE IF rcpt_needs_mail(envelope[c])
                         THEN Reply(503, "Error: need MAIL command", <<>>)
                         ELSE h.status
       IN  /\ envelope' = IF checked THEN envelope
                          ELSE [envelope EXCEPT ![c] = h.envelope]
           /\ given' = IF reply.code = 250
                       THEN [given EXCEPT ![c].rcpts = Append(@, address)]
                       ELSE given
           /\ last' = Command(c, "RCPT", given[c], reply)
    /\ UNCHANGED << conn, host_name, datamode, sending, txnSends >>
    /\ UNCHANGED procVars
    /\ UNCHANGED polVars

\* Faulty variant of smtp_DATA's precondition: DATA is taken without any
\* recipient.
data_needs_rcpt_Never(env) == FALSE

\* SMTP.smtp_DATA: "if not self.envelope.rcpt_tos: 503 need RCPT command".
data_needs_rcpt(env) == env.rcpt_tos = <<>>

\* SMTP.smtp_DATA, first half: 503 before HELO and without recipients;
\* otherwise 354 and the session reads the payload.
smtp_DATA(c) ==
    /\ InCommandMode(c)
    /\ LET reply == IF ~host_name[c] THEN NeedHelo
                    ELSE IF data_needs_rcpt(envelope[c])
                         THEN Reply(503, "Error: need RCPT command", <<>>)
                         ELSE Reply(354, "End data with <CR><LF>.<CR><LF>", <<>>)
       IN  /\ datamode' = [datamode EXCEPT ![c] = (reply.code = 354)]
           /\ last' = Command(c, "DATA", given[c], reply)
    /\ UNCHANGED << conn, host_name, envelope, sending, given, txnSends >>
    /\ UNCHANGED procVars
    /\ UNCHANGED polVars

\* Faulty variant of FinishDATA: one envelope serves all sessions, and the
\* end of a transaction empties it for every connection.
FinishDATA_SharedEnvelope(c, txn, out, h) ==
    /\ envelope' = [d \in Conns |-> EmptyEnvelope]
    /\ datamode' = [datamode EXCEPT ![c] = FALSE]
    /\ sending' = NoConn
    /\ given' = [given EXCEPT ![c] = NothingGiven]
    /\ txnSends' = [txnSends EXCEPT ![c] = @ + Len(h.gateway)]
    /\ last' = Exchange(c, "EOD", txn, h.status, out, h)

\* SMTP.smtp_DATA, after the handler returned: _set_post_data_state() and
\* push(status).
FinishDATA(c, txn, out, h) ==
    /\ envelope' = [envelope EXCEPT ![c] = EmptyEnvelope]
    /\ datamode' = [datamode EXCEPT ![c] = FALSE]
    /\ sending' = NoConn
    /\ given' = [given EXCEPT ![c] = NothingGiven]
    /\ txnSends' = [txnSends EXCEPT ![c] = @ + Len(h.gateway)]
    /\ last' = Exchange(c, "EOD", txn, h.status, out, h)

\* SMTP.smtp_DATA, second half: the end-of-data marker arrives, the payload
\* becomes envelope.content and handle_DATA runs.  When the handler gets as
\* far as execute(), the loop thread stays inside it (sending = c).
DataComplete(c, msg) ==
    /\ LoopFree /\ conn[c] = "open" /\ datamode[c]
    /\ LET env == [envelope[c] EXCEPT !.content = msg]
           txn == [given[c] EXCEPT !.data = msg]
       IN  \E out \in PreSendFailures \cup SendOutcomes :
             LET h == handle_DATA(allowed_domain, credentials, env, out)
             IN  IF h.requests = <<>>
                 THEN FinishDATA(c, txn, out, h)
                 ELSE /\ envelope' = [envelope EXCEPT ![c] = env]
                      /\ given' = [given EXCEPT ![c] = txn]
                      /\ datamode' = [datamode EXCEPT ![c] = FALSE]
                      /\ sending' = c
                      /\ last' = Command(c, "CALL", txn, NoReply)
                      /\ UNCHANGED txnSends
    /\ UNCHANGED << conn, host_name >>
    /\ UNCHANGED procVars
    /\ UNCHANGED polVars

\* execute() returns or raises: handle_DATA finishes and the loop is free.
SendReturns(c) ==
    /\ listener = "up" /\ exitCode = -1
    /\ sending = c
    /\ \E out \in SendOutcomes :
         FinishDATA(c, given[c], out,
                    handle_DATA(allowed_domain, credentials, envelope[c], out))
    /\ UNCHANGED << conn, host_name >>
    /\ UNCHANGED procVars
    /\ UNCHANGED polVars

\* SMTP.smtp_RSET: _set_rset_state(), 250 OK.
smtp_RSET(c) ==
    /\ InCommandMode(c)
    /\ envelope' = [envelope EXCEPT ![c] = _set_rset_state(@)]
    /\ given' = [given EXCEPT ![c] = NothingGiven]
    /\ last' = Command(c, "RSET", given[c], OK250)
    /\ UNCHANGED << conn, host_name, datamode, sending, txnSends >>
    /\ UNCHANGED procVars
    /\ UNCHANGED polVars

\* The session is over: the transport is closed and the session dropped.
CloseSession(c) ==
    /\ conn' = [conn EXCEPT ![c] = "closed"]
    /\ host_name' = [host_name EXCEPT ![c] = FALSE]
    /\ envelope' = [envelope EXCEPT ![c] = EmptyEnvelope]
    /\ datamode' = [datamode EXCEPT ![c] = FALSE]
    /\ given' = [given EXCEPT ![c] = NothingGiven]
    /\ txnSends' = [txnSends EXCEPT ![c] = 0]

\* SMTP.smtp_QUIT: 221 Bye, then the transport is closed.
smtp_QUIT(c) ==
    /\ InCommandMode(c)
    /\ CloseSession(c)
    /\ last' = Command(c, "QUIT", given[c], Reply(221, "Bye", <<>>))
    /\ UNCHANGED sending
    /\ UNCHANGED procVars
    /\ UNCHANGED polVars

\* The client goes away without QUIT (connection_lost).
Disconnect(c) ==
    /\ LoopFree /\ conn[c] = "open"
    /\ CloseSession(c)
    /\ last' = Command(c, "DISCONNECT", given[c], NoReply)
    /\ UNCHANGED sending
    /\ UNCHANGED procVars
    /\ UNCHANGED polVars

\* The verbs a client may send that are no SMTP command: a stray HTTP
\* request line, and the one word QuietSMTP defines a method for.
UnknownVerbs == { "POST", "UNRECOGNISED" }

\* QuietSMTP.smtp_UNRECOGNISED returns its text to the command loop, which
\* drops the value a command method returns: nothing is pushed.
smtp_UNRECOGNISED == NoReply

\* The command loop on a line whose verb is not MAIL, RCPT, ...: the verb
\* is looked up as a method smtp_<VERB>; no method, and the loop itself
\* pushes 500 Error: command "<VERB>" not recognized; the session goes on.
Unrecognised(c, verb) ==
    /\ InCommandMode(c)
    /\ last' = Command(c, "UNKNOWN", given[c],
                       IF verb = "UNRECOGNISED" THEN smtp_UNRECOGNISED
                       ELSE Reply(500, "Error: command not recognized",
                                  << verb >>))
    /\ UNCHANGED << conn, host_name, envelope, datamode, sending, given,
                    txnSends >>
    /\ UNCHANGED procVars
    /\ UNCHANGED polVars

\* The commands one client may send, with its vocabulary of senders (SS),
\* recipients (RS) and message bodies (MS).
SessionStep(c, SS, RS, MS) ==
    \/ smtp_HELO(c)
    \/ \E a \in SS : smtp_MAIL(c, a)
    \/ \E a \in RS : smtp_RCPT(c, a)
    \/ smtp_DATA(c)
    \/ \E m \in MS : DataComplete(c, m)
    \/ smtp_RSET(c)
    \/ \E v \in UnknownVerbs : Unrecognised(c, v)
    \/ smtp_QUIT(c)
    \/ Disconnect(c)

\* ---------------------------------------------------------- specifications
FirstConn == CHOOSE c \in Conns : \A d \in Conns : c <= d

\* The whole process, startup to exit, serving one client that uses the
\* full vocabulary of senders, recipients and bodies.
Next ==
    \/ _load_credentials
    \/ controller_start
    \/ install_handlers
    \/ Signal
    \/ shutdown_check
    \/ shutdown_set
    \/ shutdown_stop
    \/ shutdown_exit
    \/ Accept(FirstConn)
    \/ smtp_HELO(FirstConn)
    \/ \E a \in Senders : smtp_MAIL(FirstConn, a)
    \/ \E a \in Rcpts : smtp_RCPT(FirstConn, a)
    \/ smtp_DATA(FirstConn)
    \/ \E m \in Msgs : DataComplete(FirstConn, m)
    \/ SendReturns(FirstConn)
    \/ smtp_RSET(FirstConn)
    \/ \E v \in UnknownVerbs : Unrecognised(FirstConn, v)
    \/ smtp_QUIT(FirstConn)
    \/ Disconnect(FirstConn)

Spec == Init /\ [][Next]_vars

\* The vocabulary of the clients of the concurrent specification.
OneSender == { <<"a","@","e">> }
OneRcpt == { <<"o","@","e">> }
OneMsg == { <<72, 105>> }

\* The listener serving MaxConns clients at once, until a signal arrives.
NextConcurrent ==
    \/ _load_credentials
    \/ controller_start
    \/ install_handlers
    \/ \E c \in Conns : Accept(c)
    \/ \E c \in Conns : smtp_HELO(c)
    \/ \E c \in Conns, a \in OneSender : smtp_MAIL(c, a)
    \/ \E c \in Conns, a \in OneRcpt : smtp_RCPT(c, a)
    \/ \E c \in Conns : smtp_DATA(c)
    \/ \E c \in Conns, m \in OneMsg : DataComplete(c, m)
    \/ \E c \in Conns : SendReturns(c)
    \/ \E c \in Conns : smtp_RSET(c)
    \/ \E c \in Conns, v \in UnknownVerbs : Unrecognised(c, v)
    \/ \E c \in Conns : smtp_QUIT(c)
    \/ \E c \in Conns : Disconnect(c)

SpecConcurrent == Init /\ [][NextConcurrent]_vars

\* ------------------------------------------------------- the sender policy
\* The policy as a function of its two inputs: every restriction domain
\* without '@' and every sender address up to the bounds, '@'-less, with
\* several '@' and mixed-case ones included.
RECURSIVE SeqsUpTo(_, _)
SeqsUpTo(S, n) ==
    IF n = 0 THEN { <<>> }
    ELSE LET shorter == SeqsUpTo(S, n - 1)
         IN  shorter \cup { Append(q, x) : q \in shorter, x \in S }

PolicySenders == SeqsUpTo(Chars, MaxAddrLen)
PolicyDomains == SeqsUpTo(Chars \ {"@"}, MaxAddrLen - 1)

InitPolicy ==
    /\ keyFile = "valid"
    /\ allowed_domain = None
    /\ credentials = None
    /\ pc = "load"
    /\ exitCode = -1
    /\ listener = "down"
    /\ shutdown_requested = FALSE
    /\ frames = <<>>
    /\ signals = 0
    /\ stopCalls = 0
    /\ conn = [c \in Conns |-> "closed"]
    /\ host_name = [c \in Conns |-> FALSE]
    /\ envelope = [c \in Conns |-> EmptyEnvelope]
    /\ datamode = [c \in Conns |-> FALSE]
    /\ sending = NoConn
    /\ given = [c \in Conns |-> NothingGiven]
    /\ txnSends = [c \in Conns |-> 0]
    /\ last = Event(NoConn, "NONE", NoReply)
    /\ polDomain \in PolicyDomains
    /\ polSender \in PolicySenders
    /\ polResult = "unchecked"

\* handle_DATA's call of self._validate_sender(sender).
CheckSender ==
    /\ polResult = "unchecked"
    /\ polResult' = IF _validate_sender(polDomain, polSender)
                    THEN "allowed" ELSE "rejected"
    /\ UNCHANGED << polDomain, polSender >>
    /\ UNCHANGED procVars
    /\ UNCHANGED sessVars

NextPolicy == CheckSender

SpecPolicy == InitPolicy /\ [][NextPolicy]_vars

\* ============================================================== properties
\* The Sender Policy as the design states it, written without the code's
\* split and lower: the part of the address after its last '@' (there is
\* none when the address has no '@') equals the domain up to letter case.
HasAt(s) == \E i \in 1..Len(s) : s[i] = "@"

DomainParts(s) ==
    { SubSeq(s, k + 1, Len(s)) :
        k \in { i \in 1..Len(s) :
                  s[i] = "@" /\ \A j \in (i + 1)..Len(s) : s[j] # "@" } }

UpperChar(ch) ==
    CASE ch = "e" -> "E"
      [] ch = "a" -> "A"
      [] ch = "o" -> "O"
      [] OTHER    -> ch

SameIgnoringCase(s, t) ==
    /\ Len(s) = Len(t)
    /\ \A i \in 1..Len(s) : UpperChar(s[i]) = UpperChar(t[i])

PolicyAllows(domain, sender) ==
    \/ domain = None
    \/ \E d \in DomainParts(sender) : SameIgnoringCase(d, domain)

\* The gateway invocation a transaction is entitled to.
TxnCall(txn) == GatewayCall(txn.from, txn.rcpts, txn.data)

\* C1, as stated: every completed MAIL, RCPT(1 or more), DATA sequence
\* invokes the gateway exactly once, with the sender, the recipients in
\* the order given and the bytes submitted.
C1_GatewayAlwaysInvoked ==
    last.cmd = "EOD" => last.gateway = << TxnCall(last.txn) >>

\* C1, amended: a completed MAIL, RCPT(1 or more), DATA sequence whose
\* sender the Sender Policy allows invokes the gateway exactly once, with
\* the MAIL FROM sender, the RCPT TO recipients in the order given
\* (duplicates kept) and the DATA bytes; a sender the policy rejects
\* invokes it not at all.  At most one outbound send call is issued,
\* addressed as the sender, no other command invokes the gateway, and no
\* transaction is handed to the gateway twice whatever the outcome.
C1_GatewayExactlyOnce ==
    /\ last.cmd = "EOD" =>
         /\ last.txn.from # None /\ last.txn.rcpts # <<>>
         /\ last.gateway = IF PolicyAllows(allowed_domain, last.txn.from)
                           THEN << TxnCall(last.txn) >> ELSE <<>>
         /\ Len(last.requests) <= 1
         /\ \A i \in DOMAIN last.requests :
              last.requests[i].userId = last.txn.from
    /\ last.cmd # "EOD" => last.gateway = <<>> /\ last.requests = <<>>
    /\ \A c \in Conns : txnSends[c] <= 1

\* A transaction with a repeated recipient was handed to the gateway and
\* the outbound call failed.
C1_Witness ==
    /\ last.cmd = "EOD"
    /\ Len(last.txn.rcpts) = MaxRcpts
    /\ last.txn.rcpts[1] = last.txn.rcpts[2]
    /\ last.gateway = << TxnCall(last.txn) >>
    /\ last.out.stage = "send"

\* C2: with a restriction configured, a sender the policy rejects is still
\* answered 250 at MAIL FROM (and 354 at DATA); the rejection comes with
\* the end of the data: a 550 carrying the sender address, no delegated
\* credential derived, no gateway invocation, no outbound call, and the
\* session back in Idle.
C2_RejectedOnlyAtData ==
    /\ (last.cmd = "MAIL" /\ host_name[last.conn] /\ last.txn.from = None) =>
         /\ last.reply = OK250
         /\ envelope[last.conn].mail_from = given[last.conn].from
    /\ (last.cmd = "DATA" /\ host_name[last.conn] /\ last.txn.rcpts # <<>>) =>
         last.reply.code = 354
    /\ (last.cmd = "EOD" /\ ~PolicyAllows(allowed_domain, last.txn.from)) =>
         /\ last.reply.code = 550
         /\ last.reply.arg = last.txn.from
         /\ last.tokens = <<>> /\ last.requests = <<>> /\ last.gateway = <<>>
         /\ envelope[last.conn] = EmptyEnvelope
         /\ ~datamode[last.conn]
         /\ sending = NoConn

\* The restriction is configured and a transaction of a sender of another
\* domain has just been refused at the end of its data.
C2_Witness ==
    /\ allowed_domain # None
    /\ last.cmd = "EOD"
    /\ last.txn.from = <<"a","@","o">>
    /\ last.reply = Reply(550, "Sender domain not allowed: ", <<"a","@","o">>)

\* C3: without a restriction domain every sender is allowed; with one, a
\* sender address (containing '@') is allowed exactly when what follows its
\* last '@' equals the domain up to letter case.  With the restriction "e":
\* a@e and a@E are allowed, a@o is not.
C3_SenderPolicy ==
    polResult # "unchecked" =>
      /\ polDomain = None => polResult = "allowed"
      /\ (polDomain # None /\ HasAt(polSender)) =>
           (polResult = "allowed" <=> PolicyAllows(polDomain, polSender))
      /\ polDomain = <<"e">> =>
           /\ polSender \in { <<"a","@","e">>, <<"a","@","E">> } =>
                polResult = "allowed"
           /\ polSender = <<"a","@","o">> => polResult = "rejected"

\* The upper-case sender of the restricted domain was checked and allowed.
C3_Witness ==
    /\ polDomain = <<"e">>
    /\ polSender = <<"a","@","E">>
    /\ polResult = "allowed"

\* The session of connection c is in Idle and will take a MAIL FROM.
Idle(c) ==
    /\ conn[c] = "open"
    /\ host_name[c]
    /\ envelope[c] = EmptyEnvelope
    /\ ~datamode[c]
    /\ sending # c

\* C4: when the sender is allowed and the gateway reports success, the
\* reply to DATA is exactly "250 Message accepted for delivery" and the
\* session is back in Idle with sender, recipients and content cleared; a
\* MAIL FROM accepted afterwards starts a transaction that holds that
\* sender and nothing else.
C4_AcceptedForDelivery ==
    /\ (/\ last.cmd = "EOD"
        /\ last.out.stage = "ok"
        /\ PolicyAllows(allowed_domain, last.txn.from)) =>
         /\ last.reply = Reply(250, "Message accepted for delivery", <<>>)
         /\ Idle(last.conn)
         /\ sending = NoConn
    /\ (last.cmd = "MAIL" /\ last.reply.code = 250) =>
         /\ envelope[last.conn] =
              [EmptyEnvelope EXCEPT !.mail_from = given[last.conn].from]
         /\ txnSends[last.conn] = 0

\* The gateway returned the id msg-1 and the client got the 250.
C4_Witness ==
    /\ last.cmd = "EOD"
    /\ last.out = [stage |-> "ok", value |-> <<"msg-1">>]
    /\ last.reply.code = 250
    /\ last.requests # <<>>

\* C5: whichever step of the outbound send fails (delegation, building the
\* client, the send call), the client gets "550 Failed to send: <text>"
\* with the text of the failure, the session is back in Idle on a
\* connection that is still open, the process and its listener are still
\* up, no other connection was closed, and the loop is free to serve all of
\* them and to accept new ones.
C5_FailureBecomesReply ==
    (/\ last.cmd = "EOD"
     /\ last.out.stage \in {"delegate", "build", "send"}
     /\ PolicyAllows(allowed_domain, last.txn.from)) =>
      /\ last.reply = Reply(550, "Failed to send: ", last.out.value)
      /\ Idle(last.conn)
      /\ listener = "up" /\ exitCode = -1 /\ pc # "exited"
      /\ LoopFree
      /\ \A d \in Conns :
           /\ conn[d] = "closed" => ENABLED Accept(d)
           /\ conn[d] = "open" =>
                ENABLED SessionStep(d, OneSender, OneRcpt, OneMsg)

\* The send call of one connection failed while another connection was open.
C5_Witness ==
    /\ last.cmd = "EOD"
    /\ last.out.stage = "send"
    /\ last.reply.code = 550
    /\ \E d \in Conns \ {last.conn} : conn[d] = "open" /\ host_name[d]

\* C6: an RCPT TO sent when the transaction has no accepted MAIL FROM, and
\* a DATA sent when it has no accepted RCPT TO, are answered with a 5xx
\* rejection, leave the envelope without recipients and the session out of
\* data mode, and invoke neither the gateway nor the send API.
C6_OutOfOrderRejected ==
    /\ (last.cmd = "RCPT" /\ last.txn.from = None) =>
         /\ last.reply.code \in 500..599
         /\ envelope[last.conn].rcpt_tos = <<>>
         /\ last.gateway = <<>> /\ last.requests = <<>>
    /\ (last.cmd = "DATA" /\ last.txn.rcpts = <<>>) =>
         /\ last.reply.code \in 500..599
         /\ ~datamode[last.conn]
         /\ last.gateway = <<>> /\ last.requests = <<>>

\* A greeted session was sent RCPT TO before any MAIL FROM and refused it.
C6_Witness ==
    /\ last.cmd = "RCPT"
    /\ host_name[last.conn]
    /\ last.txn.from = None
    /\ last.reply.code = 503

\* C7: the text of the 550 reply to a failed send holds no credential
\* material, whatever the upstream error text held.
C7_ReplyHasNoSecret ==
    last.cmd = "EOD" =>
      \A i \in DOMAIN last.reply.arg : last.reply.arg[i] \notin Secrets

\* C8: while one connection's DATA handling waits for its outbound send
\* call, the listener can accept a new connection and every other open
\* session can have a command processed.
C8_OthersProgressWhileSending ==
    sending # NoConn =>
      \A d \in Conns \ {sending} :
        /\ conn[d] = "closed" => ENABLED Accept(d)
        /\ conn[d] = "open" =>
             ENABLED SessionStep(d, OneSender, OneRcpt, OneMsg)

\* The shutdown() invocations that got past the guard and the assignment.
Acting == { i \in DOMAIN frames : frames[i] \in {"stop", "exit"} }

\* C9, as stated: after two signals the process ends as after one (the
\* listener stopped by exactly one controller.stop(), status 0), and the
\* second invocation of shutdown() does nothing.
C9_SecondInvocationNoOp ==
    /\ stopCalls <= 1
    /\ (pc = "exited" /\ signals > 0) =>
         exitCode = 0 /\ stopCalls = 1 /\ listener = "stopped"
    /\ \A i \in DOMAIN frames : i > 1 => frames[i] = "check"

\* C9, amended: after two signals the process ends as after one (the
\* listener stopped by exactly one controller.stop(), called before the
\* exit, status 0, no error), and exactly one invocation of shutdown()
\* acts: the second does nothing, unless it interrupted the first between
\* the first's test of shutdown_requested and its assignment, and then the
\* second shuts down and the first never resumes.
C9_IdempotentShutdown ==
    /\ stopCalls <= 1
    /\ (pc = "exited" /\ signals > 0) =>
         exitCode = 0 /\ stopCalls = 1 /\ listener = "stopped"
    /\ listener = "stopped" => stopCalls = 1 /\ shutdown_requested
    /\ Cardinality(Acting) <= 1
    /\ Acting # {} => shutdown_requested
    /\ \A i \in DOMAIN frames :
         (shutdown_requested /\ frames[i] = "set") => i < Len(frames)

\* Both signals were delivered and the process has ended with status 0.
C9_Witness ==
    /\ pc = "exited"
    /\ signals >= 2
    /\ exitCode = 0
    /\ stopCalls = 1

\* C10: with the credential file absent or malformed the process ends with
\* status 1 and the listener is never started; whenever the listener is up
\* or a connection is open, the credential has been loaded.
C10_NoListenerWithoutCredential ==
    /\ keyFile # "valid" =>
         /\ listener = "down"
         /\ credentials = None
         /\ pc \in {"load", "exited"}
         /\ pc = "exited" => exitCode = 1
         /\ \A c \in Conns : conn[c] = "closed"
    /\ listener = "up" => credentials = LoadedCredential
    /\ \A c \in Conns : conn[c] = "open" => credentials = LoadedCredential

\* The credential file was malformed and the process has ended with 1.
C10_Witness ==
    /\ keyFile = "malformed"
    /\ pc = "exited"
    /\ exitCode = 1
    /\ listener = "down"

\* C11, as stated: every input line that is no SMTP command is answered
\* with 500 Command not recognised, invokes the gateway not at all, leaves
\* the transaction as it was and the connection open.
C11_UnrecognisedAnswered ==
    last.cmd = "UNKNOWN" =>
        /\ last.reply = Reply(500, "Command not recognised", <<>>)
        /\ last.gateway = <<>> /\ last.requests = <<>>
        /\ conn[last.conn] = "open"
        /\ given[last.conn] = last.txn
        /\ envelope[last.conn].mail_from = last.txn.from
        /\ envelope[last.conn].rcpt_tos = last.txn.rcpts

\* The reply a connection in its first transaction gives to a command, as
\* a function of what the client has sent since the greeting: sender,
\* recipients and body.
FreshReply(cmd, txn, out) ==
    CASE cmd = "MAIL" -> IF txn.from = None THEN OK250
                         ELSE Reply(503, "Error: nested MAIL command", <<>>)
      [] cmd = "RCPT" -> IF txn.from # None THEN OK250
                         ELSE Reply(503, "Error: need MAIL command", <<>>)
      [] cmd = "DATA" -> IF txn.rcpts # <<>>
                         THEN Reply(354, "End data with <CR><LF>.<CR><LF>", <<>>)
                         ELSE Reply(503, "Error: need RCPT command", <<>>)
      [] cmd = "EOD"  -> IF ~PolicyAllows(allowed_domain, txn.from)
                         THEN Reply(550, "Sender domain not allowed: ", txn.from)
                         ELSE IF out.stage = "ok"
                              THEN Reply(250, "Message accepted for delivery", <<>>)
                              ELSE Reply(550, "Failed to send: ", out.value)
      [] OTHER        -> NoReply

\* C12: RSET is answered 250 OK whatever the transaction held, empties the
\* envelope and leaves the session where a greeted connection starts; every
\* MAIL, RCPT and DATA after it is answered, and invokes the gateway, as a
\* function of what the client has sent since the reset alone, which is
\* the function of a fresh connection: nothing before the reset counts.
C12_ResetIsFresh ==
    /\ last.cmd = "RSET" =>
          /\ last.reply = OK250
          /\ envelope[last.conn] = EmptyEnvelope
          /\ given[last.conn] = NothingGiven
          /\ ~datamode[last.conn]
          /\ host_name[last.conn] => Idle(last.conn)
    /\ (last.cmd \in {"MAIL", "RCPT", "DATA"} /\ host_name[last.conn]) =>
          last.reply = FreshReply(last.cmd, last.txn, last.out)
    /\ last.cmd = "EOD" =>
          /\ last.reply = FreshReply("EOD", last.txn, last.out)
          /\ last.gateway = IF PolicyAllows(allowed_domain, last.txn.from)
                            THEN << TxnCall(last.txn) >> ELSE <<>>
    /\ \A c \in Conns :
          (conn[c] = "open" /\ ~datamode[c] /\ sending # c) =>
              /\ envelope[c].mail_from = given[c].from
              /\ envelope[c].rcpt_tos = given[c].rcpts

\* RSET has just been answered on a connection that had a sender and two
\* recipients.
C12_Witness ==
    /\ last.cmd = "RSET"
    /\ last.txn.from # None
    /\ Len(last.txn.rcpts) >= 2
    /\ Idle(last.conn)

\* C13, as stated: with a restriction domain configured, every sender
\* address without an '@' is rejected by the policy, the address that is
\* the configured domain itself (in any letter case) included.
C13_NoAtSignRejected ==
    (polResult # "unchecked" /\ polDomain # None /\ ~HasAt(polSender)) =>
        polResult = "rejected"

\* DATA has just been sent by a greeted client that had given a sender and
\* no recipient.
DataBeforeRcpt ==
    /\ last.cmd = "DATA"
    /\ host_name[last.conn]
    /\ last.txn.from # None
    /\ last.txn.rcpts = <<>>

\* C14, as stated: DATA after MAIL FROM and before any RCPT TO is rejected
\* with a 5xx reply and aborts the transaction: the session is Idle again,
\* its envelope has no sender, and an RCPT TO sent next is rejected.
C14_DataWithoutRcptAborts ==
    DataBeforeRcpt =>
        /\ last.reply.code \in 500..599
        /\ Idle(last.conn)
        /\ envelope[last.conn].mail_from = None
        /\ rcpt_needs_mail(envelope[last.conn])

\* The step is a command of the client that DataBeforeRcpt is about.
NextCommandIs(cmd) ==
    /\ last' # last
    /\ last'.conn = last.conn
    /\ last'.cmd = cmd

\* C14, amended: DATA after MAIL FROM and before any RCPT TO is rejected
\* with 503 and nothing else happens: the session reads no body, invokes
\* no gateway and keeps its envelope, sender included.  An RCPT TO sent
\* next is accepted with 250 OK and joins that sender's transaction, and a
\* MAIL FROM sent next is rejected as nested; only RSET, HELO or a new
\* connection take the session back to Idle.
C14_DataWithoutRcptKeepsSender ==
    /\ [](DataBeforeRcpt =>
            /\ last.reply = Reply(503, "Error: need RCPT command", <<>>)
            /\ last.gateway = <<>>
            /\ ~datamode[last.conn]
            /\ ~Idle(last.conn)
            /\ envelope[last.conn].mail_from = last.txn.from
            /\ envelope[last.conn].rcpt_tos = <<>>
            /\ given[last.conn] = last.txn)
    /\ [][(DataBeforeRcpt /\ NextCommandIs("RCPT")) =>
            /\ last'.reply = OK250
            /\ envelope'[last.conn].mail_from = last.txn.from
            /\ Len(envelope'[last.conn].rcpt_tos) = 1]_vars
    /\ [][(DataBeforeRcpt /\ NextCommandIs("MAIL")) =>
            /\ last'.reply.code = 503
            /\ envelope' = envelope]_vars
    /\ [][(DataBeforeRcpt /\ NextCommandIs("RSET")) =>
            Idle(last.conn)']_vars

\* The rejected DATA has been answered and the sender is still in the
\* envelope.
C14_Witness ==
    /\ DataBeforeRcpt
    /\ last.reply.code = 503
    /\ envelope[last.conn].mail_from \in Senders
    /\ ~rcpt_needs_mail(envelope[last.conn])

\* The step is an exchange on connection c: a connect, a command, the end
\* of a body, a gateway call or its return, or the end of the session.
StepOf(c) ==
    /\ last' # last
    /\ last'.conn = c

\* The protocol state of the session of connection c.
SessionOf(c) == << conn[c], host_name[c], envelope[c], datamode[c] >>

\* C15: once the handler is constructed and the credential loaded, no
\* step writes the handler's shared fields (the credential and the
\* restriction domain), a delegated credential is derived without
\* changing the credential it is derived from, and an exchange on one
\* connection leaves the envelope and protocol state of every other
\* connection as they were, whatever the interleaving.
C15_SessionsShareNothing ==
    /\ [][/\ allowed_domain' = allowed_domain
          /\ credentials # None => credentials' = credentials
          /\ \A c \in Conns :
                StepOf(c) =>
                    \A d \in Conns \ {c} : SessionOf(d)' = SessionOf(d)]_vars
    /\ [](\A i \in DOMAIN last.tokens :
             /\ last.tokens[i].base = credentials
             /\ credentials = LoadedCredential)

\* A transaction of one connection has ended with a delegated credential
\* derived, while another connection holds a sender and a recipient.
C15_Witness ==
    /\ last.cmd = "EOD"
    /\ last.tokens # <<>>
    /\ \E d \in Conns \ {last.conn} :
          /\ conn[d] = "open"
          /\ envelope[d].mail_from # None
          /\ envelope[d].rcpt_tos # <<>>

\* The recipient lists a client may give in one transaction.
RcptLists == SeqsUpTo(Rcpts, MaxRcpts) \ { <<>> }

\* The transaction of the last exchange, had its recipients been R.
SameButRcpts(R) ==
    [mail_from |-> last.txn.from, rcpt_tos |-> R, content |-> last.txn.data]

\* C16: the outbound send call is a function of the sender and the message
\* bytes alone: the transaction just ended issued the send calls it would
\* have issued with any other recipient list, and a send call holds the
\* credential delegated to the sender, the sender as user id and the
\* base64url text of the bytes, and nothing of the recipients.
C16_SendIgnoresRecipients ==
    last.cmd = "EOD" =>
        /\ Len(last.requests) <= 1
        /\ \A R \in RcptLists :
              handle_DATA(allowed_domain, credentials, SameButRcpts(R),
                          last.out).requests = last.requests
        /\ \A i \in DOMAIN last.requests :
              /\ DOMAIN last.requests[i] = {"credentials", "userId", "raw"}
              /\ last.requests[i].credentials.subject = last.txn.from
              /\ last.requests[i].userId = last.txn.from
              /\ last.requests[i].raw = urlsafe_b64encode(last.txn.data)

\* A transaction with two different recipients has issued its send call.
C16_Witness ==
    /\ last.cmd = "EOD"
    /\ last.requests # <<>>
    /\ Len(last.txn.rcpts) >= 2
    /\ last.txn.rcpts[1] # last.txn.rcpts[2]

====
